---- MODULE Spec2Model ----
(***************************************************************************)
(* Samsung Health exercise export to TCX (src/exercises.py).               *)
(*                                                                         *)
(* The module models the five operations of the exporter:                  *)
(*   create_lap, create_trackpoint, build_xml,                             *)
(*   merge_location_and_live_data (with find_nearest_time) and the         *)
(*   driver loop of __main__ around prepare_exercise_data.                 *)
(* Each operation has a specification of its own whose Init draws the      *)
(* operation's inputs from bounded sets:                                   *)
(*   SpecLap, SpecTrackpoint, SpecXml, SpecMerge, SpecDriver.              *)
(*                                                                         *)
(* An lxml element is the record [tag, attrib, text, children]; attrib is  *)
(* a set of <<name, value>> pairs, text is "" where lxml has None.         *)
(* A Python call either returns or raises: Return(v) / Raise(e).           *)
(***************************************************************************)
EXTENDS Integers, Sequences, FiniteSets, TLC

VARIABLES
    \* create_lap: its ten arguments and what the call gave
    lap_args, lap_result,
    \* create_trackpoint: its argument and what the call gave
    tp_data, tp_result,
    \* build_xml: its arguments and the document built
    xml_args, xml_result,
    \* merge_location_and_live_data: arguments, locals, position
    locationdata, livedata, merged_data, timestamps, ts, live_i, merge_pc, merge_raised,
    \* __main__: the rows read, the loop position, how the run ended,
    \* the files written, the lines printed
    exercises, main_i, main_status, exports, printed

lap_vars    == <<lap_args, lap_result>>
tp_vars     == <<tp_data, tp_result>>
xml_vars    == <<xml_args, xml_result>>
merge_vars  == <<locationdata, livedata, merged_data, timestamps, ts, live_i, merge_pc,
                 merge_raised>>
main_vars   == <<exercises, main_i, main_status, exports, printed>>
vars        == <<lap_vars, tp_vars, xml_vars, merge_vars, main_vars>>

----------------------------------------------------------------------------
(* Python values                                                           *)

\* What a call that has not been made yet has given.
NotCalled == [called |-> FALSE]
Return(v) == [called |-> TRUE, raised |-> "", value |-> v]
Raise(e)  == [called |-> TRUE, raised |-> e, value |-> ""]
Returned(r) == r.called /\ r.raised = ""
Raised(r)   == r.called /\ r.raised # ""

\* Truthiness of a str: only the empty string is false ("0" and "0.0" are true).
StrTruthy(s) == s # ""

\* The numeric literals the model feeds to int() and float(), as tenths.
Tenths(s) ==
    CASE s = "0"      -> 0
      [] s = "0.0"    -> 0
      [] s = "12.4"   -> 124
      [] s = "120.0"  -> 1200
      [] s = "150.0"  -> 1500
      [] s = "60000"  -> 600000

\* int(s) accepts integer literals only: int("0.0") raises ValueError.
IsIntLiteral(s)   == s \in {"0", "60000"}
\* float(s) accepts integer and decimal literals.
IsFloatLiteral(s) == s \in {"0", "0.0", "12.4", "120.0", "150.0", "60000"}

\* int(x) of a float: truncation towards zero (x >= 0 here), from tenths.
TruncTenths(t) == t \div 10
\* round(x, 0) of a float: half to even, from tenths.
RoundTenths(t) ==
    LET q == t \div 10
        r == t % 10
    IN  IF r < 5 THEN q
        ELSE IF r > 5 THEN q + 1
        ELSE IF q % 2 = 0 THEN q ELSE q + 1

\* str(n) of an int n >= 0: its decimal digits.
Digit(d) ==
    CASE d = 0 -> "0" [] d = 1 -> "1" [] d = 2 -> "2" [] d = 3 -> "3" [] d = 4 -> "4"
      [] d = 5 -> "5" [] d = 6 -> "6" [] d = 7 -> "7" [] d = 8 -> "8" [] d = 9 -> "9"

RECURSIVE IntStr(_)
IntStr(n) == IF n < 10 THEN Digit(n) ELSE IntStr(n \div 10) \o Digit(n % 10)

\* str(ms / 1000): true division gives a float, which prints with a fraction
\* part of at least one digit and no trailing zeros.
SecondsStr(ms) ==
    LET f == ms % 1000
        frac == IF f % 100 = 0 THEN Digit(f \div 100)
                ELSE IF f % 10 = 0 THEN Digit(f \div 100) \o Digit((f \div 10) % 10)
                ELSE Digit(f \div 100) \o Digit((f \div 10) % 10) \o Digit(f % 10)
    IN  IntStr(ms \div 1000) \o "." \o frac

\* None where the value is an int (a timestamp, a heart rate, an altitude).
None == 0 - 1
\* None where the value is an element.
NoneElement == [tag |-> "None", attrib |-> {}, text |-> "", children |-> <<>>]
\* Truthiness of an int-or-None: None and 0 are false.
IntTruthy(x) == x # None /\ x # 0
\* dict.get(key): the value, or None when the key is missing.
Get(d, key) == IF key \in DOMAIN d THEN d[key] ELSE None

----------------------------------------------------------------------------
(* lxml elements                                                           *)

Element(tag, attrib) == [tag |-> tag, attrib |-> attrib, text |-> "", children |-> <<>>]
WithText(el, text)   == [el EXCEPT !.text = text]
\* etree.SubElement(parent, tag) / parent.append(child): child becomes the last child.
AppendChild(parent, child) == [parent EXCEPT !.children = Append(@, child)]
TextElement(tag, text) == WithText(Element(tag, {}), text)
\* len(element): the number of children.
Len_(el) == Len(el.children)
ChildTags(el) == [i \in 1..Len(el.children) |-> el.children[i].tag]
HasChild(el, tag) == \E i \in 1..Len(el.children) : el.children[i].tag = tag
ChildrenTagged(el, tag) == SelectSeq(el.children, LAMBDA c : c.tag = tag)

\* Several children appended in turn.
AppendAll(parent, kids) ==
    [parent EXCEPT !.children = @ \o kids]

----------------------------------------------------------------------------
(* create_lap                                                              *)

\* <Value> wrapped in a heart-rate element
HeartRateElement(tag, s) ==
    AppendChild(Element(tag, {}), TextElement("Value", IntStr(TruncTenths(Tenths(s)))))

\* Line 125: the guard of MaximumHeartRateBpm tests max_hr for being set and
\* avg_hr, not max_hr, against the sentinel.
MaxHrGuard(avg_hr, max_hr) == StrTruthy(max_hr) /\ avg_hr # "0.0"

\* Mutant of AvgHrGuard: the sentinel is not looked at.
AvgHrGuardNoSentinel(avg_hr) == StrTruthy(avg_hr)
\* Line 122
AvgHrGuard(avg_hr) == StrTruthy(avg_hr) /\ avg_hr # "0.0"

\* Line 132: the guard of the Extensions block.
ExtensionsGuard(avg_speed, avg_cadence, max_cadence) ==
    StrTruthy(avg_speed) \/ StrTruthy(avg_cadence) \/ StrTruthy(max_cadence)

\* Lines 135, 137, 139: the guard of a child of LX.
LxGuard(s) == StrTruthy(s) /\ s # "0.0"

Extensions(avg_speed, avg_cadence, max_cadence) ==
    LET lx == AppendAll(Element("ns3:LX", {}),
                  (IF LxGuard(avg_speed)
                      THEN <<TextElement("ns3:AvgSpeed", avg_speed)>> ELSE <<>>)
               \o (IF LxGuard(avg_cadence)
                      THEN <<TextElement("ns3:AvgRunCadence", avg_cadence)>> ELSE <<>>)
               \o (IF LxGuard(max_cadence)
                      THEN <<TextElement("ns3:MaxRunCadence", max_cadence)>> ELSE <<>>))
    IN  AppendChild(Element("Extensions", {}), lx)

create_lap(a) ==
    \* the conversions raise in program order; the first one that fails ends the call
    IF StrTruthy(a.duration) /\ ~IsIntLiteral(a.duration) THEN Raise("ValueError")
    ELSE IF StrTruthy(a.calories) /\ ~IsFloatLiteral(a.calories) THEN Raise("ValueError")
    ELSE IF AvgHrGuard(a.avg_hr) /\ ~IsFloatLiteral(a.avg_hr) THEN Raise("ValueError")
    ELSE IF MaxHrGuard(a.avg_hr, a.max_hr) /\ ~IsFloatLiteral(a.max_hr) THEN Raise("ValueError")
    ELSE
    LET lap == Element("Lap", {<<"StartTime", a.start_time>>})
        kids ==
               (IF StrTruthy(a.duration)
                   THEN <<TextElement("TotalTimeSeconds", SecondsStr(Tenths(a.duration) \div 10))>>
                   ELSE <<>>)
            \o (IF StrTruthy(a.distance)
                   THEN <<TextElement("DistanceMeters", a.distance)>> ELSE <<>>)
            \o (IF StrTruthy(a.max_speed)
                   THEN <<TextElement("MaximumSpeed", a.max_speed)>> ELSE <<>>)
            \o (IF StrTruthy(a.calories)
                   THEN <<TextElement("Calories", IntStr(RoundTenths(Tenths(a.calories))))>>
                   ELSE <<>>)
            \o (IF AvgHrGuard(a.avg_hr)
                   THEN <<HeartRateElement("AverageHeartRateBpm", a.avg_hr)>> ELSE <<>>)
            \o (IF MaxHrGuard(a.avg_hr, a.max_hr)
                   THEN <<HeartRateElement("MaximumHeartRateBpm", a.max_hr)>> ELSE <<>>)
            \o <<TextElement("Intensity", "Active"), TextElement("TriggerMethod", "Manual")>>
            \o (IF ExtensionsGuard(a.avg_speed, a.avg_cadence, a.max_cadence)
                   THEN <<Extensions(a.avg_speed, a.avg_cadence, a.max_cadence)>>
                   ELSE <<>>)
    IN  Return(AppendAll(lap, kids))

----------------------------------------------------------------------------
(* create_trackpoint                                                       *)

\* Mutant of KeepTrackpoint: a track point with the time alone is kept.
KeepTrackpointAlways(trackpoint) == Len_(trackpoint) > 0
\* Line 180: the track point is given only if it has more than the <Time>.
KeepTrackpoint(trackpoint) == Len_(trackpoint) > 1

create_trackpoint(data) ==
    IF "time" \notin DOMAIN data THEN Raise("KeyError")
    ELSE IF "altitude" \in DOMAIN data /\ "longitude" \in DOMAIN data
            /\ "latitude" \notin DOMAIN data THEN Raise("KeyError")
    ELSE
    LET kids ==
               <<TextElement("Time", data["time"])>>
            \o (IF "altitude" \in DOMAIN data /\ "longitude" \in DOMAIN data
                   THEN <<AppendAll(Element("Position", {}),
                            <<TextElement("LatitudeDegrees", IntStr(data["latitude"])),
                              TextElement("LongitudeDegrees", IntStr(data["longitude"]))>>)>>
                   ELSE <<>>)
            \o (IF "heart_rate" \in DOMAIN data
                   THEN <<AppendChild(Element("HeartRateBpm", {}),
                            TextElement("Value", IntStr(data["heart_rate"])))>>
                   ELSE <<>>)
            \o (IF "cadence" \in DOMAIN data
                   THEN <<TextElement("Cadence", IntStr(data["cadence"]))>>
                   ELSE <<>>)
        trackpoint == AppendAll(Element("Trackpoint", {}), kids)
    IN  Return(IF KeepTrackpoint(trackpoint) THEN trackpoint ELSE NoneElement)

----------------------------------------------------------------------------
(* create_activity, create_root, build_xml                                 *)

create_activity(a_id, sport) ==
    AppendChild(Element("Activity", {<<"Sport", sport>>}), TextElement("Id", a_id))

create_root ==
    AppendChild(
        Element("TrainingCenterDatabase",
                {<<"xsi:schemaLocation",
                   "http://www.garmin.com/xmlschemas/TrainingCenterDatabase/v2 http://www.garmin.com/xmlschemas/TrainingCenterDatabasev2.xsd">>}),
        Element("Activities", {}))

\* Mutant of TrackGuard: the track is appended to the lap whatever it holds.
TrackGuardAlways(track) == TRUE
\* "We only add the track, if it contains at least one trackpoint."
TrackGuard(track) == Len_(track) > 0

\* The document is the element tree; its serialisation to bytes is not modelled.
build_xml(a_id, ex_type, lap, trackpoints) ==
    LET track == AppendAll(Element("Track", {}),
                           SelectSeq(trackpoints, LAMBDA t : t # NoneElement))
        lap2 == IF TrackGuard(track) THEN AppendChild(lap, track) ELSE lap
        activity == AppendChild(create_activity(a_id, ex_type), lap2)
        root == create_root
    IN  \* root.find("*") is the first child of the root, <Activities>
        [root EXCEPT !.children[1] = AppendChild(@, activity)]

convert_activity_type(sport_type) ==
    CASE sport_type = "1002"  -> "Running"
      [] sport_type = "11007" -> "Biking"
      [] OTHER                -> "Other"

----------------------------------------------------------------------------
(* find_nearest_time, merge_location_and_live_data                         *)

\* A Python dict keeps its keys in insertion order: order is the key list,
\* at the mapping. Assigning to a key that is there keeps its place.
EmptyDict == [order |-> <<>>, at |-> <<>>]
Has(d, k) == k \in DOMAIN d.at
DictSet(d, k, v) ==
    IF Has(d, k) THEN [d EXCEPT !.at = [x \in DOMAIN d.at |-> IF x = k THEN v ELSE d.at[x]]]
    ELSE [order |-> Append(d.order, k),
          at |-> [x \in DOMAIN d.at \cup {k} |-> IF x = k THEN v ELSE d.at[x]]]

\* a.update(b) on two field maps: b's keys win.
Update(a, b) ==
    [x \in DOMAIN a \cup DOMAIN b |-> IF x \in DOMAIN b THEN b[x] ELSE a[x]]

Abs(x) == IF x < 0 THEN 0 - x ELSE x

Range(q) == {q[i] : i \in 1..Len(q)}

\* sorted(xs): ascending, duplicates kept.
RECURSIVE Sorted(_)
Sorted(xs) ==
    IF xs = <<>> THEN <<>>
    ELSE LET m == CHOOSE x \in Range(xs) : \A y \in Range(xs) : x <= y
             i == CHOOSE j \in 1..Len(xs) : xs[j] = m
         IN  <<m>> \o Sorted(SubSeq(xs, 1, i - 1) \o SubSeq(xs, i + 1, Len(xs)))

\* datetime.fromtimestamp(ms / 1000, utc).strftime("%Y-%m-%dT%H:%M:%S.000Z"):
\* the whole seconds are printed, the milliseconds are not. The model's
\* timestamps lie in the first minute after the epoch.
FormatTime(ms) ==
    LET sec == ms \div 1000
    IN  "1970-01-01T00:00:" \o Digit(sec \div 10) \o Digit(sec % 10) \o ".000Z"

\* Mutant of Nearest: the key is timestamp - ts, without abs.
NearestNoAbs(t, stamps) ==
    LET best == CHOOSE i \in 1..Len(stamps) :
                  /\ \A j \in 1..Len(stamps) : stamps[i] - t <= stamps[j] - t
                  /\ \A j \in 1..(i - 1) : stamps[j] - t > stamps[i] - t
    IN  stamps[best]
\* Mutant of Nearest: the last of the minimal elements, in list order.
NearestLast(t, stamps) ==
    LET best == CHOOSE i \in 1..Len(stamps) :
                  /\ \A j \in 1..Len(stamps) : Abs(stamps[i] - t) <= Abs(stamps[j] - t)
                  /\ \A j \in (i + 1)..Len(stamps) : Abs(stamps[j] - t) > Abs(stamps[i] - t)
    IN  stamps[best]
\* min(timestamps, key=...) gives the first of the minimal elements, in list order.
Nearest(t, stamps) ==
    LET best == CHOOSE i \in 1..Len(stamps) :
                  /\ \A j \in 1..Len(stamps) : Abs(stamps[i] - t) <= Abs(stamps[j] - t)
                  /\ \A j \in 1..(i - 1) : Abs(stamps[j] - t) > Abs(stamps[i] - t)
    IN  stamps[best]

\* min() of an empty list raises ValueError before the key is ever called;
\* abs(timestamp - None) raises TypeError.
find_nearest_time(t, stamps) ==
    IF stamps = <<>> THEN Raise("ValueError")
    ELSE IF t = None THEN Raise("TypeError")
    ELSE Return(Nearest(t, stamps))

\* Lines 281-290: one entry per position fix, keyed by its start_time.
LocationEntry(entry) ==
    [x \in {"time", "latitude", "longitude", "altitude"} |->
        CASE x = "time"      -> FormatTime(entry["start_time"])
          [] x = "latitude"  -> entry["latitude"]
          [] x = "longitude" -> entry["longitude"]
          [] x = "altitude"  -> Get(entry, "altitude")]

RECURSIVE MergeLocations(_, _)
MergeLocations(md, fixes) ==
    IF fixes = <<>> THEN md
    ELSE MergeLocations(DictSet(md, Head(fixes)["start_time"], LocationEntry(Head(fixes))),
                        Tail(fixes))

\* Line 293
Timestamps(fixes) == Sorted([i \in 1..Len(fixes) |-> fixes[i]["start_time"]])

\* Line 295: a or b
SampleTime(entry) ==
    IF IntTruthy(Get(entry, "start_time")) THEN Get(entry, "start_time")
    ELSE Get(entry, "StartTime")

\* Lines 295-296: the key the sample goes to.
ResolveTime(md, stamps, entry) ==
    LET t == SampleTime(entry)
    IN  IF Has(md, t) THEN Return(t) ELSE find_nearest_time(t, stamps)

\* Line 299: the sample itself gets a heart_rate key, None when it had none.
WithHeartRate(entry) ==
    [x \in DOMAIN entry \cup {"heart_rate"} |->
        IF x = "heart_rate" THEN Get(entry, "heart_rate") ELSE entry[x]]

PayloadKeys == {"distance", "cadence", "heart_rate", "speed"}

\* Line 305: the fields of the sample that are set and true.
Payload(entry) ==
    [x \in {k \in PayloadKeys : IntTruthy(Get(entry, k))} |-> entry[x]]

\* Lines 298-305, for a sample whose key is t.
Attach(md, t, entry) ==
    LET md2 == IF Has(md, t) THEN md
               ELSE DictSet(md, t, [x \in {"time"} |-> FormatTime(t)])
    IN  DictSet(md2, t, Update(md2.at[t], Payload(WithHeartRate(entry))))

\* Line 299: int(entry["heart_rate"]) is called whenever the key is there;
\* int(None), for a JSON null, raises TypeError.
HeartRateRaises(entry) == "heart_rate" \in DOMAIN entry /\ entry["heart_rate"] = None

\* Lines 295-305: one round of the loop over livedata.
MergeSample(md, stamps, entry) ==
    LET r == ResolveTime(md, stamps, entry)
    IN  IF Raised(r) THEN r
        ELSE IF HeartRateRaises(entry) THEN Raise("TypeError")
        ELSE Return(Attach(md, r.value, entry))

RECURSIVE MergeLive(_, _, _)
MergeLive(md, stamps, samples) ==
    IF samples = <<>> THEN Return(md)
    ELSE LET r == MergeSample(md, stamps, Head(samples))
         IN  IF Raised(r) THEN r ELSE MergeLive(r.value, stamps, Tail(samples))

merge_location_and_live_data(fixes, samples) ==
    MergeLive(MergeLocations(EmptyDict, fixes), Timestamps(fixes), samples)

----------------------------------------------------------------------------
(* fetch_json_data, prepare_exercise_data                                  *)

\* A JSON file of an exercise: it is there or not; content is the list in it.
NoFile == [exists |-> FALSE, content |-> <<>>]
File(content) == [exists |-> TRUE, content |-> content]
\* The {} given for a missing file and a [] read from a file are both false
\* and both iterate over nothing: each is the empty sequence here.
fetch_json_data(file) == IF file.exists THEN file.content ELSE <<>>

\* start_time.replace(" ", "T") + "Z", on the start times of the model.
LapTime(start_time) ==
    CASE start_time = "2024-05-01 10:00:00" -> "2024-05-01T10:00:00Z"
      [] start_time = "2024-05-02 18:30:00" -> "2024-05-02T18:30:00Z"

LapArgsOf(exercise) ==
    [start_time  |-> LapTime(exercise.start_time),
     duration    |-> exercise.duration,
     distance    |-> exercise.distance,
     calories    |-> exercise.total_calorie,
     avg_hr      |-> exercise.mean_heart_rate,
     max_hr      |-> exercise.max_heart_rate,
     avg_speed   |-> exercise.mean_speed,
     max_speed   |-> exercise.max_speed,
     avg_cadence |-> exercise.mean_cadence,
     max_cadence |-> exercise.max_cadence]

\* Line 342, "for d in data": the keys in insertion order.
WalkOrder(data) == data.order

\* Lines 341-345. bool(element) of lxml is whether it has children; every
\* track point that is not None has at least two.
RECURSIVE Trackpoints(_, _)
Trackpoints(data, keys) ==
    IF keys = <<>> THEN Return(<<>>)
    ELSE LET r == create_trackpoint(data.at[Head(keys)])
         IN  IF Raised(r) THEN r
             ELSE LET rest == Trackpoints(data, Tail(keys))
                  IN  IF Raised(rest) THEN rest
                      ELSE Return((IF r.value # NoneElement /\ Len_(r.value) > 0
                                      THEN <<r.value>> ELSE <<>>) \o rest.value)

prepare_exercise_data(exercise) ==
    LET time == LapTime(exercise.start_time)
        ex_type == convert_activity_type(exercise.exercise_type)
        lap == create_lap(LapArgsOf(exercise))
        location_data == fetch_json_data(exercise.location_file)
        live_data == fetch_json_data(exercise.live_file)
        data == merge_location_and_live_data(location_data, live_data)
        trackpoints == Trackpoints(data.value, WalkOrder(data.value))
    IN  IF Raised(lap) THEN lap
        ELSE IF location_data = <<>> THEN Return(NoneElement)
        ELSE IF Raised(data) THEN data
        ELSE IF Raised(trackpoints) THEN trackpoints
        ELSE Return(build_xml(time, ex_type, lap.value, trackpoints.value))

----------------------------------------------------------------------------
(* Bounds and input sets                                                   *)

\* Timestamps are 500 ms apart: 500, 1000, ..., 500 * MaxTime.
MaxTime == 3
\* Longest position-fix series.
MaxFixes == 2
\* Longest sample series.
MaxSamples == 2
\* Longest list of track points given to build_xml.
MaxTrackpoints == 3
\* Most rows in the exercise list.
MaxBatch == 2

\* Epoch milliseconds of a recording are positive. (A timestamp of 0 is
\* false at line 295 and is read there like a missing one.)
Times == {500 * k : k \in 1..MaxTime}

SeqsUpTo(S, n) == UNION {[1..m -> S] : m \in 0..n}

\* A position fix of the location_data JSON.
Fix(t) ==
    [x \in {"start_time", "latitude", "longitude", "altitude"} |->
        CASE x = "start_time" -> t
          [] x = "latitude"   -> 47
          [] x = "longitude"  -> 8
          [] x = "altitude"   -> 400]
Fixes == {Fix(t) : t \in Times}

\* A sample of the live_data JSON: its timestamp under start_time, under
\* StartTime, or under neither; hr is its heart rate.
Sample(key, t, hr) ==
    IF key = "" THEN [x \in {"heart_rate"} |-> hr]
    ELSE [x \in {key, "heart_rate"} |-> IF x = key THEN t ELSE hr]
\* The i-th sample of a series has heart rate 60 + i, which tells the samples apart.
SamplesAt(i) ==
    {Sample(key, t, 60 + i) : key \in {"start_time", "StartTime"}, t \in Times}
        \cup {Sample("", None, 60 + i)}
SampleSeries ==
    {q \in SeqsUpTo(UNION {SamplesAt(i) : i \in 1..MaxSamples}, MaxSamples) :
        \A i \in 1..Len(q) : q[i] \in SamplesAt(i)}

\* The arguments of create_lap, as the CSV gives them: strings, "" when the
\* cell is empty.
LapArgs ==
    [start_time  : {"2024-05-01T10:00:00Z"},
     duration    : {"", "0", "0.0", "60000", "abc"},
     distance    : {"", "0.0", "5000.0"},
     calories    : {"", "0", "12.4", "abc"},
     avg_hr      : {"", "0", "0.0", "120.0", "abc"},
     max_hr      : {"", "0.0", "150.0"},
     avg_speed   : {"", "0.0", "2.5"},
     max_speed   : {"", "0.0", "3.5"},
     avg_cadence : {"", "0.0", "80.0"},
     max_cadence : {"", "0.0", "90.0"}]

\* The dicts given to create_trackpoint are entries of the merged dict: the
\* time, the three position keys together or none of them (lines 285-290,
\* 302) and any of the payload keys (line 305).
PositionKeys == {"latitude", "longitude", "altitude"}
EntryValue(x) ==
    CASE x = "latitude" -> 47 [] x = "longitude" -> 8 [] x = "altitude" -> 400
      [] x = "distance" -> 12 [] x = "heart_rate" -> 70 [] x = "cadence" -> 80
      [] x = "speed" -> 3
EntryWith(keys, t, altitude) ==
    [x \in keys \cup {"time"} |->
        CASE x = "time"     -> FormatTime(t)
          [] x = "altitude" -> altitude
          [] OTHER          -> EntryValue(x)]
\* The altitude of an entry is None when the fix had none (line 289).
Entries ==
    {EntryWith(keys, t, 400) : keys \in SUBSET PayloadKeys, t \in Times}
    \cup {EntryWith(PositionKeys \cup keys, t, altitude) :
            keys \in SUBSET PayloadKeys, t \in Times, altitude \in {400, None}}

\* The track points given to build_xml: elements made by create_trackpoint,
\* each in the list once (an lxml element has one parent, and the caller
\* makes a fresh element per entry), and None.
TrackpointPool ==
    {create_trackpoint(EntryWith({"heart_rate"}, 1000 * k, None)).value : k \in 1..MaxTime}
TrackpointLists ==
    {q \in SeqsUpTo(TrackpointPool \cup {NoneElement}, MaxTrackpoints) :
        \A i, j \in 1..Len(q) : (i # j /\ q[i] = q[j]) => q[i] = NoneElement}
XmlLaps ==
    {create_lap([start_time |-> "2024-05-01T10:00:00Z", duration |-> d, distance |-> "",
                 calories |-> "", avg_hr |-> "", max_hr |-> "", avg_speed |-> s,
                 max_speed |-> "", avg_cadence |-> "", max_cadence |-> ""]).value :
        d \in {"", "60000"}, s \in {"", "2.5"}}
XmlArgs ==
    [a_id : {"2024-05-01T10:00:00Z"}, ex_type : {"Running", "Biking", "Other"},
     lap : XmlLaps, trackpoints : TrackpointLists]

\* The rows of the exercise list. The JSON files of an exercise go with its
\* row; datauuid is the row's place in the list.
RowWith(start_time, calories, mean_hr, location_file, live_file) ==
    [datauuid |-> "", start_time |-> start_time, exercise_type |-> "1002",
     duration |-> "60000", distance |-> "5000.0", total_calorie |-> calories,
     mean_heart_rate |-> mean_hr, max_heart_rate |-> "150.0", mean_speed |-> "2.5",
     max_speed |-> "3.5", mean_cadence |-> "80.0", max_cadence |-> "90.0",
     location_file |-> location_file, live_file |-> live_file]
LocationFiles ==
    {NoFile, File(<<>>), File(<<Fix(500), Fix(1000)>>), File(<<Fix(1000), Fix(500)>>)}
LiveFiles == {NoFile, File(<<Sample("start_time", 1000, 70)>>)}
Rows ==
    {RowWith("", "12.4", "120.0", NoFile, NoFile)}
    \cup {RowWith("2024-05-01 10:00:00", c[1], c[2], loc, live) :
            c \in {<<"12.4", "120.0">>, <<"abc", "120.0">>, <<"12.4", "abc">>},
            loc \in LocationFiles, live \in LiveFiles}
Batches ==
    {[i \in 1..Len(q) |-> [q[i] EXCEPT !.datauuid = IntStr(i)]] : q \in SeqsUpTo(Rows, MaxBatch)}

----------------------------------------------------------------------------
(* The state of an operation that a specification does not run             *)

LapIdle   == lap_args = <<>> /\ lap_result = NotCalled
TpIdle    == tp_data = <<>> /\ tp_result = NotCalled
XmlIdle   == xml_args = <<>> /\ xml_result = NotCalled
MergeIdle ==
    /\ locationdata = <<>> /\ livedata = <<>> /\ merged_data = EmptyDict
    /\ timestamps = <<>> /\ ts = None /\ live_i = 0 /\ merge_pc = "idle"
    /\ merge_raised = ""
MainIdle  ==
    /\ exercises = <<>> /\ main_i = 0 /\ main_status = "idle"
    /\ exports = <<>> /\ printed = <<>>

----------------------------------------------------------------------------
(* create_lap as a call                                                    *)

InitLap ==
    /\ lap_args \in LapArgs /\ lap_result = NotCalled
    /\ TpIdle /\ XmlIdle /\ MergeIdle /\ MainIdle

CallCreateLap ==
    /\ lap_args # <<>> /\ ~lap_result.called
    /\ lap_result' = create_lap(lap_args)
    /\ UNCHANGED <<lap_args, tp_vars, xml_vars, merge_vars, main_vars>>

SpecLap == InitLap /\ [][CallCreateLap]_vars

(* create_trackpoint as a call                                             *)

InitTrackpoint ==
    /\ tp_data \in Entries /\ tp_result = NotCalled
    /\ LapIdle /\ XmlIdle /\ MergeIdle /\ MainIdle

CallCreateTrackpoint ==
    /\ tp_data # <<>> /\ ~tp_result.called
    /\ tp_result' = create_trackpoint(tp_data)
    /\ UNCHANGED <<tp_data, lap_vars, xml_vars, merge_vars, main_vars>>

SpecTrackpoint == InitTrackpoint /\ [][CallCreateTrackpoint]_vars

(* build_xml as a call                                                     *)

InitXml ==
    /\ xml_args \in XmlArgs /\ xml_result = NotCalled
    /\ LapIdle /\ TpIdle /\ MergeIdle /\ MainIdle

CallBuildXml ==
    /\ xml_args # <<>> /\ ~xml_result.called
    /\ xml_result' = Return(build_xml(xml_args.a_id, xml_args.ex_type, xml_args.lap,
                                       xml_args.trackpoints))
    /\ UNCHANGED <<xml_args, lap_vars, tp_vars, merge_vars, main_vars>>

SpecXml == InitXml /\ [][CallBuildXml]_vars

(* merge_location_and_live_data, one round of its second loop at a time    *)

InitMerge ==
    /\ locationdata \in SeqsUpTo(Fixes, MaxFixes)
    /\ livedata \in SampleSeries
    /\ merged_data = EmptyDict /\ timestamps = <<>> /\ ts = None /\ live_i = 0
    /\ merge_pc = "locations" /\ merge_raised = ""
    /\ LapIdle /\ TpIdle /\ XmlIdle /\ MainIdle

\* Lines 279-293: the first loop and the sorted timestamp list.
MergeLocationData ==
    /\ merge_pc = "locations"
    /\ merged_data' = MergeLocations(EmptyDict, locationdata)
    /\ timestamps' = Timestamps(locationdata)
    /\ live_i' = 1
    /\ merge_pc' = "live"
    /\ UNCHANGED <<locationdata, livedata, ts, merge_raised,
                   lap_vars, tp_vars, xml_vars, main_vars>>

\* Lines 294-305 for livedata[live_i], when nothing raises.
MergeLiveEntry ==
    /\ merge_pc = "live" /\ live_i <= Len(livedata)
    /\ LET r == ResolveTime(merged_data, timestamps, livedata[live_i])
       IN  /\ Returned(MergeSample(merged_data, timestamps, livedata[live_i]))
           /\ ts' = r.value
           /\ merged_data' = Attach(merged_data, r.value, livedata[live_i])
           /\ livedata' = [livedata EXCEPT ![live_i] = WithHeartRate(@)]
    /\ live_i' = live_i + 1
    /\ UNCHANGED <<locationdata, timestamps, merge_pc, merge_raised,
                   lap_vars, tp_vars, xml_vars, main_vars>>

\* Lines 295-299 for livedata[live_i], when find_nearest_time or int()
\* raises: the exception leaves the function.
MergeLiveRaise ==
    /\ merge_pc = "live" /\ live_i <= Len(livedata)
    /\ LET r == MergeSample(merged_data, timestamps, livedata[live_i])
       IN  /\ Raised(r)
           /\ merge_raised' = r.raised
    /\ merge_pc' = "raised"
    /\ UNCHANGED <<locationdata, livedata, merged_data, timestamps, ts, live_i,
                   lap_vars, tp_vars, xml_vars, main_vars>>

\* Line 307
MergeReturn ==
    /\ merge_pc = "live" /\ live_i > Len(livedata)
    /\ merge_pc' = "returned"
    /\ UNCHANGED <<locationdata, livedata, merged_data, timestamps, ts, live_i, merge_raised,
                   lap_vars, tp_vars, xml_vars, main_vars>>

NextMerge == MergeLocationData \/ MergeLiveEntry \/ MergeLiveRaise \/ MergeReturn

SpecMerge == InitMerge /\ [][NextMerge]_vars

(* merge_location_and_live_data on samples with every kind of payload      *)

\* Two position fixes, and samples that carry the timestamp of one of them.
PayloadFixes == <<Fix(500), Fix(1000)>>
\* A field of a sample is missing, 0 or a value of its own; the heart rate
\* may be a JSON null as well. The i-th sample's values end in i.
FieldValues(key, i) ==
    CASE key = "heart_rate" -> {0, 60 + i, None}
      [] key = "cadence"    -> {0, 80 + i}
      [] key = "distance"   -> {0, 10 + i}
      [] key = "speed"      -> {0, 20 + i}
\* Stands for a key that the sample does not have.
Missing == 0 - 2
PayloadSample(t, hr, cadence, distance, speed) ==
    LET given == [x \in PayloadKeys |->
                    CASE x = "heart_rate" -> hr [] x = "cadence" -> cadence
                      [] x = "distance" -> distance [] x = "speed" -> speed]
    IN  [x \in {"start_time"} \cup {k \in PayloadKeys : given[k] # Missing} |->
            IF x = "start_time" THEN t ELSE given[x]]
PayloadSamplesAt(i) ==
    {PayloadSample(t, hr, cadence, distance, speed) :
        t \in {500, 1000},
        hr \in {Missing} \cup FieldValues("heart_rate", i),
        cadence \in {Missing} \cup FieldValues("cadence", i),
        distance \in {Missing} \cup FieldValues("distance", i),
        speed \in {Missing} \cup FieldValues("speed", i)}
RECURSIVE PayloadSeriesOf(_)
PayloadSeriesOf(m) ==
    IF m = 0 THEN {<<>>}
    ELSE {Append(q, e) : q \in PayloadSeriesOf(m - 1), e \in PayloadSamplesAt(m)}
PayloadSeries == UNION {PayloadSeriesOf(m) : m \in 0..MaxSamples}

InitPayload ==
    /\ locationdata = PayloadFixes
    /\ livedata \in PayloadSeries
    /\ merged_data = EmptyDict /\ timestamps = <<>> /\ ts = None /\ live_i = 0
    /\ merge_pc = "locations" /\ merge_raised = ""
    /\ LapIdle /\ TpIdle /\ XmlIdle /\ MainIdle

SpecPayload == InitPayload /\ [][NextMerge]_vars

(* __main__: the loop over the exercises                                   *)

InitDriver ==
    /\ exercises \in Batches
    /\ main_i = 1 /\ main_status = "running" /\ exports = <<>> /\ printed = <<>>
    /\ LapIdle /\ TpIdle /\ XmlIdle /\ MergeIdle

\* write_to_file: the file of that name now holds xml.
WriteFile(files, name, xml) ==
    [x \in DOMAIN files \cup {name} |-> IF x = name THEN xml ELSE files[x]]

\* Lines 370-371: a row without start time is passed over without a line.
SkipNoStartTime ==
    /\ main_status = "running" /\ main_i <= Len(exercises)
    /\ exercises[main_i].start_time = ""
    /\ main_i' = main_i + 1
    /\ UNCHANGED <<exercises, main_status, exports, printed,
                   lap_vars, tp_vars, xml_vars, merge_vars>>

\* Lines 372-375
ExportExercise ==
    /\ main_status = "running" /\ main_i <= Len(exercises)
    /\ exercises[main_i].start_time # ""
    /\ LET xml_data == prepare_exercise_data(exercises[main_i])
           uuid == exercises[main_i].datauuid
       IN  /\ Returned(xml_data) /\ xml_data.value # NoneElement
           /\ exports' = WriteFile(exports, uuid, xml_data.value)
           /\ printed' = Append(printed, <<"Exported exercise", uuid>>)
    /\ main_i' = main_i + 1
    /\ UNCHANGED <<exercises, main_status,
                   lap_vars, tp_vars, xml_vars, merge_vars>>

\* Lines 376-377
SkipExercise ==
    /\ main_status = "running" /\ main_i <= Len(exercises)
    /\ exercises[main_i].start_time # ""
    /\ LET xml_data == prepare_exercise_data(exercises[main_i])
           uuid == exercises[main_i].datauuid
       IN  /\ Returned(xml_data) /\ xml_data.value = NoneElement
           /\ printed' = Append(printed, <<"Skipping exercise", uuid>>)
    /\ main_i' = main_i + 1
    /\ UNCHANGED <<exercises, main_status, exports,
                   lap_vars, tp_vars, xml_vars, merge_vars>>

\* Line 372, when prepare_exercise_data raises: nothing catches the
\* exception, the run ends with a traceback.
Crash ==
    /\ main_status = "running" /\ main_i <= Len(exercises)
    /\ exercises[main_i].start_time # ""
    /\ Raised(prepare_exercise_data(exercises[main_i]))
    /\ main_status' = "crashed"
    /\ UNCHANGED <<exercises, main_i, exports, printed,
                   lap_vars, tp_vars, xml_vars, merge_vars>>

\* Line 379
Complete ==
    /\ main_status = "running" /\ main_i > Len(exercises)
    /\ main_status' = "completed"
    /\ printed' = Append(printed, <<"Export completed successfully.", "">>)
    /\ UNCHANGED <<exercises, main_i, exports,
                   lap_vars, tp_vars, xml_vars, merge_vars>>

NextDriver == SkipNoStartTime \/ ExportExercise \/ SkipExercise \/ Crash \/ Complete

SpecDriver == InitDriver /\ [][NextDriver]_vars

(* Every operation                                                         *)

Init == InitLap \/ InitTrackpoint \/ InitXml \/ InitMerge \/ InitPayload \/ InitDriver
Next ==
    \/ CallCreateLap \/ CallCreateTrackpoint \/ CallBuildXml
    \/ NextMerge \/ NextDriver
Spec == Init /\ [][Next]_vars

----------------------------------------------------------------------------
(* Properties                                                              *)

\* The timestamps of the position fixes given.
FixTimes == {locationdata[i]["start_time"] : i \in 1..Len(locationdata)}
\* The timestamp a sample carries: under start_time, else under StartTime,
\* else none.
OwnTime(entry) ==
    IF "start_time" \in DOMAIN entry THEN entry["start_time"]
    ELSE IF "StartTime" \in DOMAIN entry THEN entry["StartTime"]
    ELSE None
\* The loop over livedata has gone through sample k.
Merged(k) == merge_pc \in {"live", "returned", "raised"} /\ 1 <= k /\ k < live_i

\* C1: with a non-empty position-fix series, a sample that carries a timestamp
\* never makes the merge raise, and once the loop has gone through it, it is
\* attached (its heart rate is in the entry) at its own timestamp when that
\* is a timestamp of a fix, and else at a fix timestamp of least distance.
C1_NearestOrExact ==
    locationdata # <<>> =>
        /\ (merge_pc = "raised" => OwnTime(livedata[live_i]) = None)
        /\ Merged(live_i - 1) =>
              LET own == OwnTime(livedata[live_i - 1])
              IN  /\ ts \in FixTimes
                  /\ own \in FixTimes => ts = own
                  /\ \A u \in FixTimes : Abs(ts - own) <= Abs(u - own)
                  /\ Has(merged_data, ts)
                  /\ Get(merged_data.at[ts], "heart_rate") = livedata[live_i - 1]["heart_rate"]

\* C1 witness: a sample without exact match has been attached to a fix.
C1_Witness ==
    /\ Merged(live_i - 1)
    /\ Len(locationdata) = 2 /\ locationdata[1]["start_time"] > locationdata[2]["start_time"]
    /\ OwnTime(livedata[live_i - 1]) \notin FixTimes
    /\ Get(merged_data.at[ts], "heart_rate") = livedata[live_i - 1]["heart_rate"]

\* The second of a Time text, read back from the format of FormatTime.
SecondOf(text) == CHOOSE sec \in 0..59 : FormatTime(1000 * sec) = text
\* The track points of a document: root / Activities / Activity / Lap / Track.
LapOf(doc) == doc.children[1].children[1].children[2]
TrackPointsOf(doc) ==
    LET tracks == ChildrenTagged(LapOf(doc), "Track")
    IN  IF tracks = <<>> THEN <<>> ELSE tracks[1].children
TimeOf(trackpoint) == ChildrenTagged(trackpoint, "Time")[1].text

\* C2: in every document the driver has written, the track points are in
\* ascending order of time.
C2_TrackAscending ==
    \A uuid \in DOMAIN exports :
        LET tps == TrackPointsOf(exports[uuid])
        IN  \A i, j \in 1..Len(tps) :
                i < j => SecondOf(TimeOf(tps[i])) <= SecondOf(TimeOf(tps[j]))

\* The supplied track points that are not None, in the supplied order.
RECURSIVE NotNone(_)
NotNone(q) ==
    IF q = <<>> THEN <<>>
    ELSE IF Head(q).tag = "None" THEN NotNone(Tail(q))
    ELSE <<Head(q)>> \o NotNone(Tail(q))

\* C3: the document of build_xml has one <Activities> with one <Activity>,
\* which holds its <Id> and the supplied lap; the lap has its own children
\* and then no <Track> when no track point is supplied that is not None,
\* and else one <Track> holding exactly those track points in their order.
C3_OneLapOneTrack ==
    xml_result.called =>
        LET doc == xml_result.value
            given == NotNone(xml_args.trackpoints)
            activity == doc.children[1].children[1]
            lap == activity.children[2]
        IN  /\ Returned(xml_result)
            /\ doc.tag = "TrainingCenterDatabase" /\ ChildTags(doc) = <<"Activities">>
            /\ ChildTags(doc.children[1]) = <<"Activity">>
            /\ ChildTags(activity) = <<"Id", "Lap">>
            /\ activity.children[1].text = xml_args.a_id
            /\ activity.attrib = {<<"Sport", xml_args.ex_type>>}
            /\ lap.attrib = xml_args.lap.attrib
            /\ IF given = <<>>
                  THEN lap.children = xml_args.lap.children
                  ELSE /\ Len(lap.children) = Len(xml_args.lap.children) + 1
                       /\ SubSeq(lap.children, 1, Len(xml_args.lap.children))
                              = xml_args.lap.children
                       /\ lap.children[Len(lap.children)].tag = "Track"
                       /\ lap.children[Len(lap.children)].children = given

\* C3 witness: a document built from a list that holds only None entries.
C3_Witness ==
    /\ Returned(xml_result)
    /\ Len(xml_args.trackpoints) >= 2
    /\ NotNone(xml_args.trackpoints) = <<>>
    /\ ~HasChild(LapOf(xml_result.value), "Track")

\* A track point was produced from the entry given.
Produced == Returned(tp_result) /\ tp_result.value # NoneElement

\* C4 as claimed: a track point is produced if and only if the entry has a
\* key besides the time.
C4_AnyFieldClaimed ==
    tp_result.called => (Produced <=> DOMAIN tp_data # {"time"})

\* C4 as amended: create_trackpoint returns, and a track point is produced if
\* and only if the entry has the position, a heart rate or a cadence; an entry
\* with the time alone, or with the time and only distance or speed, gives None.
C4_PositionHrCadence ==
    tp_result.called =>
        /\ Returned(tp_result)
        /\ Produced <=> (PositionKeys \subseteq DOMAIN tp_data
                          \/ "heart_rate" \in DOMAIN tp_data
                          \/ "cadence" \in DOMAIN tp_data)

\* C4 witness: an entry with the time, a distance and a speed has given None.
C4_Witness ==
    /\ Returned(tp_result)
    /\ DOMAIN tp_data = {"time", "distance", "speed"}
    /\ tp_result.value = NoneElement

\* The loop has reached row j: it is in the round of row j or past it.
Reached(j) == main_status # "idle" /\ 1 <= j /\ j <= Len(exercises) /\ main_i >= j
\* The loop is past row j.
Past(j) == Reached(j) /\ main_i > j
\* The run ended in the round of row j, with an exception.
CrashedAt(j) == main_status = "crashed" /\ main_i = j
\* Row j has a start time and no position fixes (no file, or an empty list).
NoFixes(j) ==
    /\ exercises[j].start_time # ""
    /\ fetch_json_data(exercises[j].location_file) = <<>>
PrintedLines == {printed[i] : i \in 1..Len(printed)}

\* What the run has written for row k is what prepare_exercise_data gives for
\* row k alone: its document, or nothing when it gives None.
ExportedAlone(k) ==
    LET xml_data == prepare_exercise_data(exercises[k])
        uuid == exercises[k].datauuid
    IN  IF exercises[k].start_time # "" /\ Returned(xml_data) /\ xml_data.value # NoneElement
            THEN uuid \in DOMAIN exports /\ exports[uuid] = xml_data.value
            ELSE uuid \notin DOMAIN exports

\* C5: an exercise with a start time and without position fixes gets no
\* document and a "Skipping" line, and the loop goes on after it: once it is
\* past the exercise, the run comes to write for every other row what that
\* row alone gives.
C5_SkipWithoutFixes ==
    \A j \in 1..Len(exercises) :
        (Reached(j) /\ NoFixes(j)) =>
            /\ ~CrashedAt(j)
            /\ exercises[j].datauuid \notin DOMAIN exports
            /\ Past(j) => <<"Skipping exercise", exercises[j].datauuid>> \in PrintedLines
            /\ main_status = "completed" =>
                  \A k \in 1..Len(exercises) : k # j => ExportedAlone(k)

\* A cell that is set and that float() does not read.
Unparsable(s) == s # "" /\ s \notin {"0", "0.0", "12.4", "120.0", "150.0", "60000"}
\* Row j with the unparsable optional cells emptied.
Emptied(row) ==
    [row EXCEPT !.total_calorie = IF Unparsable(@) THEN "" ELSE @,
                !.mean_heart_rate = IF Unparsable(@) THEN "" ELSE @,
                !.max_heart_rate = IF Unparsable(@) THEN "" ELSE @]
HasUnparsable(row) == Emptied(row) # row

\* C6: a row with an unparsable value in an optional numeric field does not
\* end the run; the loop goes on, and what is written for the row is what is
\* written for the row with that field empty.
C6_UnparsableIsAbsent ==
    \A j \in 1..Len(exercises) :
        (Reached(j) /\ exercises[j].start_time # "" /\ HasUnparsable(exercises[j])) =>
            /\ ~CrashedAt(j)
            /\ exercises[j].datauuid \in DOMAIN exports =>
                  exports[exercises[j].datauuid]
                      = prepare_exercise_data(Emptied(exercises[j])).value

\* The lap built, when create_lap returned.
BuiltLap == lap_result.value
\* The children of <LX> in the lap, none when there is no <Extensions>.
LxChildTags ==
    IF HasChild(BuiltLap, "Extensions")
        THEN {t \in {"ns3:AvgSpeed", "ns3:AvgRunCadence", "ns3:MaxRunCadence"} :
                HasChild(ChildrenTagged(BuiltLap, "Extensions")[1].children[1], t)}
        ELSE {}
Zero(s) == s \in {"0", "0.0"}

C8_HeartRateOwnInput ==
    Returned(lap_result) =>
        /\ HasChild(BuiltLap, "AverageHeartRateBpm")
              <=> (lap_args.avg_hr # "" /\ lap_args.avg_hr # "0.0")
        /\ HasChild(BuiltLap, "MaximumHeartRateBpm")
              <=> (lap_args.max_hr # "" /\ lap_args.max_hr # "0.0")

\* C9: the lap built has the <Extensions> block exactly when one of
\* avg_speed, avg_cadence, max_cadence is set and not "0.0"; there is no
\* <LX> without children.
C9_ExtensionsIffNonZero ==
    Returned(lap_result) =>
        /\ HasChild(BuiltLap, "Extensions")
              <=> \E s \in {lap_args.avg_speed, lap_args.avg_cadence, lap_args.max_cadence} :
                      s # "" /\ s # "0.0"
        /\ HasChild(BuiltLap, "Extensions") => LxChildTags # {}

\* The samples of a series that carry a timestamp.
RECURSIVE Timed(_)
Timed(q) ==
    IF q = <<>> THEN <<>>
    ELSE IF OwnTime(Head(q)) = None THEN Timed(Tail(q))
    ELSE <<Head(q)>> \o Timed(Tail(q))

\* C10: a sample without timestamp does not make the merge raise, and the
\* merge gives what it gives for the series without such samples. (Stated
\* for the merges the driver asks for, those with at least one position fix.)
C10_UntimedSkipped ==
    locationdata # <<>> =>
        /\ merge_pc = "raised" => OwnTime(livedata[live_i]) # None
        /\ merge_pc = "returned" =>
              merged_data
                  = merge_location_and_live_data(locationdata, Timed(livedata)).value

\* The samples gone through so far that went to the entry at t and supplied
\* field f with a value that is there and not null (0 counts).
Suppliers(t, f) ==
    {i \in 1..(live_i - 1) :
        /\ OwnTime(livedata[i]) = t
        /\ f \in DOMAIN livedata[i] /\ livedata[i][f] # None}
Last(S) == CHOOSE i \in S : \A j \in S : j <= i

\* C11: while the merge runs and when it has returned, every entry holds for
\* each payload field the value of the last sample that went to it and
\* supplied the field, 0 included, and has no such field when there is no
\* such sample; its time and position are those of the fix.
C11_LastSuppliedValue ==
    (merge_pc \in {"live", "returned"} /\ locationdata = PayloadFixes) =>
        \A t \in DOMAIN merged_data.at :
            /\ \A f \in PayloadKeys :
                  IF Suppliers(t, f) = {}
                      THEN f \notin DOMAIN merged_data.at[t]
                      ELSE /\ f \in DOMAIN merged_data.at[t]
                           /\ merged_data.at[t][f] = livedata[Last(Suppliers(t, f))][f]
            /\ \A x \in {"time", "latitude", "longitude", "altitude"} :
                  merged_data.at[t][x] = LocationEntry(Fix(t))[x]

\* The fix timestamps of least distance to t.
Closest(t) == {u \in FixTimes : \A v \in FixTimes : Abs(u - t) <= Abs(v - t)}
\* Two different fix timestamps lie equally far from t, and no fix is closer.
Tie(t) == \E u, v \in Closest(t) : u # v

\* C12: a sample whose timestamp is not a timestamp of a fix is attached to
\* the smallest of the fix timestamps of least distance: of two equidistant
\* fix timestamps the smaller one wins, in whatever order the fixes were
\* given.
C12_TieGoesToSmaller ==
    (locationdata # <<>> /\ Merged(live_i - 1)) =>
        LET own == OwnTime(livedata[live_i - 1])
        IN  own \notin FixTimes =>
              /\ ts \in Closest(own)
              /\ \A u \in Closest(own) : ts <= u
              /\ Has(merged_data, ts)
              /\ Get(merged_data.at[ts], "heart_rate") = livedata[live_i - 1]["heart_rate"]

\* C12 witness: the fixes were given in descending order, the sample lies
\* halfway between them, and it has been attached to the smaller one.
C12_Witness ==
    /\ Merged(live_i - 1)
    /\ Len(locationdata) = 2 /\ locationdata[1]["start_time"] > locationdata[2]["start_time"]
    /\ Tie(OwnTime(livedata[live_i - 1]))
    /\ ts = locationdata[2]["start_time"]
    /\ Get(merged_data.at[ts], "heart_rate") = livedata[live_i - 1]["heart_rate"]

\* The fix timestamp sample i belongs to: its own, or the smallest of the
\* closest ones.
Target(i) ==
    LET own == OwnTime(livedata[i])
    IN  IF own \in FixTimes THEN own
        ELSE CHOOSE u \in Closest(own) : \A v \in Closest(own) : u <= v
\* u and t are fix timestamps that follow one another.
Consecutive(u, t) ==
    /\ u \in FixTimes /\ t \in FixTimes /\ u < t
    /\ ~\E v \in FixTimes : u < v /\ v < t

\* C13: in the merged data, an entry that follows an entry with a heart rate
\* has a heart rate too, and when no sample of its own arrived for it, it is
\* the heart rate of the entry before: the heart rate is carried forward
\* until a new one arrives.
C13_HeartRateCarriedForward ==
    (merge_pc = "returned" /\ locationdata # <<>>) =>
        \A u, t \in DOMAIN merged_data.at :
            (Consecutive(u, t) /\ "heart_rate" \in DOMAIN merged_data.at[u]) =>
                /\ "heart_rate" \in DOMAIN merged_data.at[t]
                /\ (~\E i \in 1..Len(livedata) : Target(i) = t) =>
                      merged_data.at[t]["heart_rate"] = merged_data.at[u]["heart_rate"]

====
